---- MODULE Spec2Model ----
(***************************************************************************)
(* Model of src/kstat.rs: the KstatWrapper around libkstat(3LIB) and the   *)
(* four accessors cpu_mhz, boot_time, nproc and pages built on it.         *)
(*                                                                         *)
(* The kernel's kstat chain is a finite sequence of groups; a pointer to a *)
(* group (ksp) is its index in the chain and 0 is the null pointer.  Each  *)
(* accessor call is a process whose steps are the wrapper methods and the  *)
(* libkstat calls it makes, in program order.                              *)
(***************************************************************************)
EXTENDS Integers, Sequences, FiniteSets, TLC

VARIABLES
    chain,      \* the facility's kstat chain: Seq of [module, name, data]
    kfail,      \* TRUE while the kernel refuses kstat_read (it returns -1)
    live,       \* handles (kstat_ctl_t addresses) currently open
    acc,        \* acc[c]: the accessor that call c runs
    pc,         \* pc[c]: position of call c in its accessor
    k,          \* k[c]: the call's KstatWrapper [kc, ksp, stepping]
    freemem,    \* freemem[c]: the local `freemem` of pages()
    result,     \* result[c]: the Result the call returns
    hist,       \* hist[c]: what call c did to the facility (history)
    fault       \* TRUE once memory is misused (null dereference, stale handle)

vars == <<chain, kfail, live, acc, pc, k, freemem, result, hist, fault>>

-----------------------------------------------------------------------------
(* Bounds of the model *)

\* longest kstat chain
MaxChain == 2
\* number of accessor calls that can be in flight together
NumCalls == 2
\* most step() calls counted after one lookup, beyond the chain's length
StepSlack == 2
\* width of the modelled c_long / c_ulong word, and of the modelled u32
LongBits == 7
U32Bits == 5

Calls == 1..NumCalls
Handles == 1..NumCalls
MaxSteps == MaxChain + StepSlack

-----------------------------------------------------------------------------
(* Program constants *)

MODULE_CPU_INFO == "cpu_info"
STAT_CLOCK_MHZ == "clock_MHz"
MODULE_UNIX == "unix"
NAME_SYSTEM_MISC == "system_misc"
STAT_BOOT_TIME == "boot_time"
STAT_NPROC == "nproc"
NAME_SYSTEM_PAGES == "system_pages"
STAT_FREEMEM == "freemem"
STAT_PHYSMEM == "physmem"

Accessors == {"cpu_mhz", "boot_time", "nproc", "pages"}

\* Option<T>
None == [some |-> FALSE, val |-> 0]
Some(v) == [some |-> TRUE, val |-> v]

\* Option<&str>
NoStr == [some |-> FALSE, str |-> ""]
SomeStr(s) == [some |-> TRUE, str |-> s]

-----------------------------------------------------------------------------
(* The facility: groups a host can report.  Each is a Kstat record reduced *)
(* to its module and name strings and the named fields of its data.  Some  *)
(* differ from an expected module or name by one character and carry the   *)
(* requested fields all the same.                                          *)

NoStats == [s \in {} |-> 0]
AllStats == (STAT_CLOCK_MHZ :> 9) @@ (STAT_BOOT_TIME :> 3) @@ (STAT_NPROC :> 4)
            @@ (STAT_FREEMEM :> 1) @@ (STAT_PHYSMEM :> 2)

CpuInfo0 == [module |-> "cpu_info", name |-> "cpu_info0", data |-> (STAT_CLOCK_MHZ :> 24)]
CpuInfo1 == [module |-> "cpu_info", name |-> "cpu_info1", data |-> NoStats]
CpuInf0 == [module |-> "cpu_inf0", name |-> "system_misc", data |-> AllStats]
SystemMisc == [module |-> "unix", name |-> "system_misc",
               data |-> (STAT_BOOT_TIME :> 17) @@ (STAT_NPROC :> 21)]
SystemMiscBare == [module |-> "unix", name |-> "system_misc", data |-> (STAT_BOOT_TIME :> 18)]
SystemPages == [module |-> "unix", name |-> "system_pages",
                data |-> (STAT_FREEMEM :> 10) @@ (STAT_PHYSMEM :> 40)]
SystemPagesBare == [module |-> "unix", name |-> "system_pages", data |-> (STAT_FREEMEM :> 11)]
SystemPage == [module |-> "unix", name |-> "system_page", data |-> AllStats]

Kstat == {CpuInfo0, CpuInfo1, CpuInf0, SystemMisc, SystemMiscBare,
          SystemPages, SystemPagesBare, SystemPage}

RECURSIVE SeqsUpTo(_, _)
SeqsUpTo(S, n) ==
    IF n = 0 THEN {<<>>}
    ELSE LET shorter == SeqsUpTo(S, n - 1)
         IN shorter \cup {Append(s, x) : s \in {q \in shorter : Len(q) = n - 1}, x \in S}

Chains == SeqsUpTo(Kstat, MaxChain)

\* Turn an optional string reference into an optional owned C string
cstr(s) == IF s.some THEN SomeStr(s.str) ELSE NoStr

\* a (const char *): the string for Some, NULL for None
cstrp(p) == IF p.some THEN [null |-> FALSE, str |-> p.str] ELSE [null |-> TRUE, str |-> ""]

RECURSIVE kstat_lookup_from(_, _, _, _)
\* the chain walk of kstat_lookup from group i on
kstat_lookup_from(ch, i, m, n) ==
    IF i > Len(ch) THEN 0
    ELSE IF /\ (m.null \/ ch[i].module = m.str)
            /\ (n.null \/ ch[i].name = n.str)
         THEN i
         ELSE kstat_lookup_from(ch, i + 1, m, n)

\* kstat_lookup(kc, module, -1, name): first group matching the non-null
\* filters (instance -1 matches every instance), NULL (0) if there is none
kstat_lookup(ch, m, n) == kstat_lookup_from(ch, 1, m, n)

\* kstat_read(kc, ksp, NULL): -1 on failure, else the kstat's id
kstat_read(fail, ksp) == IF fail THEN -1 ELSE ksp

\* kstat_data_lookup(ksp, name): the named record of the group's data, or NULL
kstat_data_lookup(ch, ksp, stat) ==
    IF stat \in DOMAIN ch[ksp].data
    THEN [null |-> FALSE, grp |-> ksp, field |-> stat]
    ELSE [null |-> TRUE, grp |-> 0, field |-> ""]

\* ks_next gone wrong: the last node links back to the first
ks_next_ring(ch, ksp) == IF ksp < Len(ch) THEN ksp + 1 ELSE 1

\* ks_next gone wrong: the link skips a node
ks_next_skip(ch, ksp) == IF ksp + 1 < Len(ch) THEN ksp + 2 ELSE 0

\* (*ksp).ks_next: the next node of the chain, NULL after the last
ks_next(ch, ksp) == IF ksp < Len(ch) THEN ksp + 1 ELSE 0

\* the members of the KstatValue union of a named record, read from its bits
value_l(raw) == IF raw >= 2 ^ (LongBits - 1) THEN raw - 2 ^ LongBits ELSE raw
value_ul(raw) == raw % (2 ^ LongBits)
value_ui32(raw) == raw % (2 ^ U32Bits)

-----------------------------------------------------------------------------
(* KstatWrapper: a wrapper is a record [kc, ksp, stepping] *)

\* KstatWrapper::open, once kstat_open returned the non-null handle h
open(h) == [kc |-> h, ksp |-> 0, stepping |-> FALSE]

\* lookup gone wrong: the stepping flag is left as it was
lookup_keep_stepping(w, mod, nam) ==
    [w EXCEPT !.ksp = kstat_lookup(chain, cstrp(cstr(mod)), cstrp(cstr(nam)))]

lookup(w, mod, nam) ==
    [w EXCEPT !.ksp = kstat_lookup(chain, cstrp(cstr(mod)), cstrp(cstr(nam))),
              !.stepping = FALSE]

\* step gone wrong: follows ks_next on the first call after a lookup too
step_always_advance(w) ==
    LET moved ==
          IF w.ksp = 0
          THEN {[w |-> [w EXCEPT !.ksp = p, !.stepping = TRUE], fault |-> TRUE] :
                  p \in 0..Len(chain)}
          ELSE {[w |-> [w EXCEPT !.ksp = IF @ < Len(chain) THEN @ + 1 ELSE 0,
                                 !.stepping = TRUE], fault |-> FALSE]}
    IN { IF m.w.ksp = 0
         THEN [w |-> [m.w EXCEPT !.stepping = FALSE], ret |-> FALSE, fault |-> m.fault]
         ELSE [w |-> m.w, ret |-> TRUE, fault |-> m.fault] : m \in moved }

\* step gone wrong: stepping is not reset when the chain is exhausted
step_no_reset(w) ==
    LET moved ==
          IF ~w.stepping THEN {[w |-> [w EXCEPT !.stepping = TRUE], fault |-> FALSE]}
          ELSE IF w.ksp = 0
               THEN {[w |-> [w EXCEPT !.ksp = p], fault |-> TRUE] : p \in 0..Len(chain)}
               ELSE {[w |-> [w EXCEPT !.ksp = ks_next(chain, w.ksp)], fault |-> FALSE]}
    IN { [w |-> m.w, ret |-> m.w.ksp # 0, fault |-> m.fault] : m \in moved }

\* step: the outcomes [w, ret, fault] of one call.  Reading ks_next through
\* a null ksp is undefined: any cursor may result, and the fault is recorded.
step(w) ==
    LET moved ==
          IF ~w.stepping THEN {[w |-> [w EXCEPT !.stepping = TRUE], fault |-> FALSE]}
          ELSE IF w.ksp = 0
               THEN {[w |-> [w EXCEPT !.ksp = p], fault |-> TRUE] : p \in 0..Len(chain)}
               ELSE {[w |-> [w EXCEPT !.ksp = ks_next(chain, w.ksp)], fault |-> FALSE]}
    IN { IF m.w.ksp = 0
         THEN [w |-> [m.w EXCEPT !.stepping = FALSE], ret |-> FALSE, fault |-> m.fault]
         ELSE [w |-> m.w, ret |-> TRUE, fault |-> m.fault] : m \in moved }

\* module gone wrong: nothing until the walk has started
module_once_stepping(w) ==
    IF w.ksp = 0 \/ ~w.stepping THEN NoStr ELSE SomeStr(chain[w.ksp].module)

module(w) == IF w.ksp = 0 THEN NoStr ELSE SomeStr(chain[w.ksp].module)

name(w) == IF w.ksp = 0 THEN NoStr ELSE SomeStr(chain[w.ksp].name)

\* data_value gone wrong: the result of kstat_read is not looked at
data_value_unchecked_read(w, statistic) ==
    LET nothing == [null |-> TRUE, grp |-> 0, field |-> ""] IN
    IF w.ksp = 0
    THEN [some |-> FALSE, knp |-> nothing, read |-> FALSE, looked |-> FALSE]
    ELSE LET knp == kstat_data_lookup(chain, w.ksp, cstrp(cstr(SomeStr(statistic))).str)
         IN IF knp.null
            THEN [some |-> FALSE, knp |-> nothing, read |-> TRUE, looked |-> TRUE]
            ELSE [some |-> TRUE, knp |-> knp, read |-> TRUE, looked |-> TRUE]

\* data_value: [some, knp] and whether kstat_read and kstat_data_lookup ran
data_value(w, statistic) ==
    LET nothing == [null |-> TRUE, grp |-> 0, field |-> ""] IN
    IF w.ksp = 0
    THEN [some |-> FALSE, knp |-> nothing, read |-> FALSE, looked |-> FALSE]
    ELSE IF kstat_read(kfail, w.ksp) = -1
    THEN [some |-> FALSE, knp |-> nothing, read |-> TRUE, looked |-> FALSE]
    ELSE LET knp == kstat_data_lookup(chain, w.ksp, cstrp(cstr(SomeStr(statistic))).str)
         IN IF knp.null
            THEN [some |-> FALSE, knp |-> nothing, read |-> TRUE, looked |-> TRUE]
            ELSE [some |-> TRUE, knp |-> knp, read |-> TRUE, looked |-> TRUE]

\* (*knp).value as raw bits
deref(knp) == chain[knp.grp].data[knp.field]

\* the typed accessors: [some, val, read, looked]
data_long(w, statistic) ==
    LET dv == data_value(w, statistic)
    IN [some |-> dv.some, val |-> IF dv.some THEN value_l(deref(dv.knp)) ELSE 0,
        read |-> dv.read, looked |-> dv.looked]

data_ulong(w, statistic) ==
    LET dv == data_value(w, statistic)
    IN [some |-> dv.some, val |-> IF dv.some THEN value_ul(deref(dv.knp)) ELSE 0,
        read |-> dv.read, looked |-> dv.looked]

data_u32(w, statistic) ==
    LET dv == data_value(w, statistic)
    IN [some |-> dv.some, val |-> IF dv.some THEN value_ui32(deref(dv.knp)) ELSE 0,
        read |-> dv.read, looked |-> dv.looked]

\* the conversion gone wrong: the magnitude of a negative value
i64_as_u64_magnitude(v) == IF v < 0 THEN 0 - v ELSE v

\* `as u64` of an i64 and of a u32
i64_as_u64(v) == v % (2 ^ LongBits)
u32_as_u64(v) == v % (2 ^ LongBits)

-----------------------------------------------------------------------------
(* Results and the history of a call *)

NoResult == [tag |-> "none", err |-> "", val |-> 0, val2 |-> 0]
Ok(v) == [tag |-> "ok", err |-> "", val |-> v, val2 |-> 0]
OkPages(f, p) == [tag |-> "ok", err |-> "", val |-> f, val2 |-> p]
Err(msg) == [tag |-> "err", err |-> msg, val |-> 0, val2 |-> 0]
Panic == [tag |-> "panic", err |-> "", val |-> 0, val2 |-> 0]

ERR_OPEN == "kstat_open(3KSTAT) failed"
ERR_CPU_MHZ == "cpu speed kstat not found"
ERR_BOOT_TIME == "boot time kstat not found"
ERR_NPROC == "process count kstat not found"
ERR_PAGES == "system pages kstat not available"

\* the "not found" error of accessor a
NotFoundOf(a) ==
    CASE a = "cpu_mhz" -> ERR_CPU_MHZ
      [] a = "boot_time" -> ERR_BOOT_TIME
      [] a = "nproc" -> ERR_NPROC
      [] OTHER -> ERR_PAGES

\* the last wrapper method called and what it returned: ret is step()'s
\* bool or whether an Option is Some; str the string returned (module, name)
\* or the statistic asked for (data_*); val the value; read and looked
\* whether kstat_read and kstat_data_lookup ran
NoCall == [op |-> "none", ret |-> FALSE, str |-> "", val |-> 0,
           read |-> FALSE, looked |-> FALSE]
Called(op, ret) == [NoCall EXCEPT !.op = op, !.ret = ret]

NoHist ==
    [opened    |-> FALSE,  \* kstat_open returned a handle
     last      |-> NoCall, \* the last method called on a wrapper used directly
     args      |-> <<NoStr, NoStr>>, \* module and name of the last lookup
     reused    |-> FALSE,  \* a lookup was made after step() had returned false
     closes    |-> 0,      \* kstat_close calls
     lookups   |-> 0,      \* kstat_lookup calls
     pos       |-> 0,      \* what the last kstat_lookup returned
     steps     |-> 0,      \* step() calls since the last lookup
     trues     |-> 0,      \* of these, the ones that returned true
     sawFalse  |-> FALSE,  \* step() returned false since the last lookup
     visited   |-> <<>>,   \* groups step() positioned, in order
     checked   |-> {},     \* groups whose module/name strings were compared
     reads     |-> 0,      \* kstat_read calls: the refreshes, numbered from 1
     refreshed |-> {},     \* groups kstat_read was called on
     looked    |-> {},     \* groups kstat_data_lookup was called on
     partial   |-> {},     \* groups where pages() got one of its two fields
     grp       |-> 0,      \* group the returned value was read from
     src1      |-> 0,      \* refresh the first returned value came from
     src2      |-> 0]      \* refresh the second returned value came from

\* the history after a typed accessor returned d on the positioned group
AfterData(h, w, d) ==
    [h EXCEPT !.reads = IF d.read THEN @ + 1 ELSE @,
              !.refreshed = IF d.read THEN @ \cup {w.ksp} ELSE @,
              !.looked = IF d.looked THEN @ \cup {w.ksp} ELSE @]

\* a facility call through a handle that is not open misuses memory
Stale(w) == w.kc \notin live

-----------------------------------------------------------------------------
(* The accessors, one action per statement.  c is the call. *)

\* open gone wrong: a null handle is not noticed and the walk begins
AccOpenIgnoreNull(c) ==
    /\ pc[c] = "open"
    /\ \E h \in (Handles \ live) \cup {0} :
         /\ k' = [k EXCEPT ![c] = open(h)]
         /\ live' = IF h = 0 THEN live ELSE live \cup {h}
         /\ hist' = [hist EXCEPT ![c].opened = (h # 0)]
         /\ pc' = [pc EXCEPT ![c] = "lookup"]
    /\ UNCHANGED <<chain, kfail, acc, freemem, result, fault>>

\* open gone wrong: one process-wide connection, handed to every call
AccOpenShared(c) ==
    /\ pc[c] = "open"
    /\ \E h \in IF live = {} THEN Handles ELSE live :
         /\ k' = [k EXCEPT ![c] = open(h)]
         /\ live' = live \cup {h}
         /\ hist' = [hist EXCEPT ![c].opened = TRUE]
         /\ pc' = [pc EXCEPT ![c] = "lookup"]
    /\ UNCHANGED <<chain, kfail, acc, freemem, result, fault>>

\* let mut k = KstatWrapper::open()?;
AccOpen(c) ==
    /\ pc[c] = "open"
    /\ \E h \in (Handles \ live) \cup {0} :
         IF h = 0
         THEN /\ result' = [result EXCEPT ![c] = Err(ERR_OPEN)]
              /\ pc' = [pc EXCEPT ![c] = "done"]
              /\ UNCHANGED <<k, live, hist>>
         ELSE /\ k' = [k EXCEPT ![c] = open(h)]
              /\ live' = live \cup {h}
              /\ hist' = [hist EXCEPT ![c].opened = TRUE]
              /\ pc' = [pc EXCEPT ![c] = "lookup"]
              /\ UNCHANGED result
    /\ UNCHANGED <<chain, kfail, acc, freemem, fault>>

\* k.lookup(Some(module), name);
AccLookup(c, mod, nam) ==
    /\ pc[c] = "lookup"
    /\ k' = [k EXCEPT ![c] = lookup(k[c], mod, nam)]
    /\ hist' = [hist EXCEPT ![c].lookups = @ + 1, ![c].pos = k'[c].ksp,
                            ![c].steps = 0, ![c].trues = 0, ![c].sawFalse = FALSE]
    /\ fault' = (fault \/ Stale(k[c]))
    /\ pc' = [pc EXCEPT ![c] = "step"]
    /\ UNCHANGED <<chain, kfail, live, acc, freemem, result>>

\* the loop gone wrong: the handle is closed by hand when the chain is
\* exhausted, and the wrapper's drop still follows
AccStepCloseByHand(c, msg) ==
    /\ pc[c] = "step"
    /\ \E o \in step(k[c]) :
         /\ k' = [k EXCEPT ![c] = o.w]
         /\ hist' = [hist EXCEPT ![c].steps = @ + 1,
                                 ![c].trues = IF o.ret THEN @ + 1 ELSE @,
                                 ![c].sawFalse = @ \/ ~o.ret,
                                 ![c].visited = IF o.ret THEN Append(@, o.w.ksp) ELSE @,
                                 ![c].closes = IF o.ret THEN @ ELSE @ + 1]
         /\ fault' = (fault \/ o.fault)
         /\ IF o.ret
            THEN /\ pc' = [pc EXCEPT ![c] = "filter"]
                 /\ UNCHANGED <<result, live>>
            ELSE /\ pc' = [pc EXCEPT ![c] = "drop"]
                 /\ live' = live \ {k[c].kc}
                 /\ result' = [result EXCEPT ![c] = Err(msg)]
    /\ UNCHANGED <<chain, kfail, acc, freemem>>

\* while k.step() { ... }  return Err(msg.into());
AccStep(c, msg) ==
    /\ pc[c] = "step"
    /\ \E o \in step(k[c]) :
         /\ k' = [k EXCEPT ![c] = o.w]
         /\ hist' = [hist EXCEPT ![c].steps = @ + 1,
                                 ![c].trues = IF o.ret THEN @ + 1 ELSE @,
                                 ![c].sawFalse = @ \/ ~o.ret,
                                 ![c].visited = IF o.ret THEN Append(@, o.w.ksp) ELSE @]
         /\ fault' = (fault \/ o.fault)
         /\ IF o.ret
            THEN /\ pc' = [pc EXCEPT ![c] = "filter"]
                 /\ UNCHANGED result
            ELSE /\ pc' = [pc EXCEPT ![c] = "drop"]
                 /\ result' = [result EXCEPT ![c] = Err(msg)]
    /\ UNCHANGED <<chain, kfail, live, acc, freemem>>

\* the filter gone wrong: && for ||, a group is skipped only if both differ
AccFilterBoth(c, mod, nam) ==
    /\ pc[c] = "filter"
    /\ hist' = [hist EXCEPT ![c].checked = @ \cup {k[c].ksp}]
    /\ pc' = [pc EXCEPT ![c] =
                IF /\ module(k[c]).str # mod
                   /\ (nam.some => name(k[c]).str # nam.str)
                THEN "step" ELSE "data"]
    /\ UNCHANGED <<chain, kfail, live, acc, k, freemem, fault, result>>

\* if k.module().unwrap() != mod || k.name().unwrap() != nam { continue; }
\* (nam = NoStr: the accessor compares the module only)
AccFilter(c, mod, nam) ==
    /\ pc[c] = "filter"
    /\ hist' = [hist EXCEPT ![c].checked = @ \cup {k[c].ksp}]
    /\ IF ~module(k[c]).some \/ (nam.some /\ ~name(k[c]).some)
       THEN \* unwrap() of None panics; unwinding drops k
            /\ pc' = [pc EXCEPT ![c] = "drop"]
            /\ result' = [result EXCEPT ![c] = Panic]
       ELSE /\ pc' = [pc EXCEPT ![c] =
                        IF \/ module(k[c]).str # mod
                           \/ (nam.some /\ name(k[c]).str # nam.str)
                        THEN "step" ELSE "data"]
            /\ UNCHANGED result
    /\ UNCHANGED <<chain, kfail, live, acc, k, freemem, fault>>

\* extraction gone wrong: an absent field or failed refresh is a hard error
AccDataHardError(c, d, v) ==
    /\ pc[c] = "data"
    /\ fault' = (fault \/ (d.read /\ Stale(k[c])))
    /\ result' = [result EXCEPT ![c] = IF d.some THEN Ok(v) ELSE Err(NotFoundOf(acc[c]))]
    /\ hist' = [hist EXCEPT ![c] =
                  IF d.some
                  THEN [AfterData(@, k[c], d) EXCEPT !.grp = k[c].ksp,
                                                     !.src1 = hist[c].reads + 1]
                  ELSE AfterData(@, k[c], d)]
    /\ pc' = [pc EXCEPT ![c] = "drop"]
    /\ UNCHANGED <<chain, kfail, live, acc, k, freemem>>

\* extraction gone wrong: the value is kept but the loop is not left
AccDataKeepGoing(c, d, v) ==
    /\ pc[c] = "data"
    /\ fault' = (fault \/ (d.read /\ Stale(k[c])))
    /\ result' = [result EXCEPT ![c] = IF d.some THEN Ok(v) ELSE @]
    /\ hist' = [hist EXCEPT ![c] =
                  IF d.some
                  THEN [AfterData(@, k[c], d) EXCEPT !.grp = k[c].ksp,
                                                     !.src1 = hist[c].reads + 1]
                  ELSE AfterData(@, k[c], d)]
    /\ pc' = [pc EXCEPT ![c] = "step"]
    /\ UNCHANGED <<chain, kfail, live, acc, k, freemem>>

\* if let Some(v) = k.data_xxx(STAT) { return Ok(v as u64); }
\* d is what the typed accessor returns, v the converted value
AccData(c, d, v) ==
    /\ pc[c] = "data"
    /\ fault' = (fault \/ (d.read /\ Stale(k[c])))
    /\ IF d.some
       THEN /\ result' = [result EXCEPT ![c] = Ok(v)]
            /\ hist' = [hist EXCEPT ![c] =
                          [AfterData(@, k[c], d) EXCEPT !.grp = k[c].ksp,
                                                        !.src1 = hist[c].reads + 1]]
            /\ pc' = [pc EXCEPT ![c] = "drop"]
       ELSE /\ hist' = [hist EXCEPT ![c] = AfterData(@, k[c], d)]
            /\ pc' = [pc EXCEPT ![c] = "step"]
            /\ UNCHANGED result
    /\ UNCHANGED <<chain, kfail, live, acc, k, freemem>>

\* let freemem = k.data_ulong(STAT_FREEMEM);
PagesFreemem(c) ==
    /\ pc[c] = "data"
    /\ LET d == data_ulong(k[c], STAT_FREEMEM) IN
         /\ freemem' = [freemem EXCEPT ![c] = IF d.some THEN Some(d.val) ELSE None]
         /\ hist' = [hist EXCEPT ![c] =
                       [AfterData(@, k[c], d) EXCEPT
                          !.src1 = IF d.some THEN hist[c].reads + 1 ELSE 0]]
         /\ fault' = (fault \/ (d.read /\ Stale(k[c])))
    /\ pc' = [pc EXCEPT ![c] = "data2"]
    /\ UNCHANGED <<chain, kfail, live, acc, k, result>>

\* pages gone wrong: || for &&, one field is enough
PagesPhysmemEither(c) ==
    /\ pc[c] = "data2"
    /\ LET physmem == data_ulong(k[c], STAT_PHYSMEM) IN
         /\ fault' = (fault \/ (physmem.read /\ Stale(k[c])))
         /\ IF freemem[c].some \/ physmem.some
            THEN /\ result' = [result EXCEPT ![c] = OkPages(freemem[c].val, physmem.val)]
                 /\ hist' = [hist EXCEPT ![c] =
                               [AfterData(@, k[c], physmem) EXCEPT
                                  !.grp = k[c].ksp,
                                  !.src2 = IF physmem.some THEN hist[c].reads + 1 ELSE 0]]
                 /\ pc' = [pc EXCEPT ![c] = "drop"]
            ELSE /\ hist' = [hist EXCEPT ![c] = AfterData(@, k[c], physmem)]
                 /\ pc' = [pc EXCEPT ![c] = "step"]
                 /\ UNCHANGED result
    /\ freemem' = [freemem EXCEPT ![c] = None]
    /\ UNCHANGED <<chain, kfail, live, acc, k>>

\* let physmem = k.data_ulong(STAT_PHYSMEM);
\* if freemem.is_some() && physmem.is_some() { return Ok(Pages { .. }); }
PagesPhysmem(c) ==
    /\ pc[c] = "data2"
    /\ LET physmem == data_ulong(k[c], STAT_PHYSMEM) IN
         /\ fault' = (fault \/ (physmem.read /\ Stale(k[c])))
         /\ IF freemem[c].some /\ physmem.some
            THEN /\ result' = [result EXCEPT ![c] = OkPages(freemem[c].val, physmem.val)]
                 /\ hist' = [hist EXCEPT ![c] =
                               [AfterData(@, k[c], physmem) EXCEPT
                                  !.grp = k[c].ksp, !.src2 = hist[c].reads + 1]]
                 /\ pc' = [pc EXCEPT ![c] = "drop"]
            ELSE /\ hist' = [hist EXCEPT ![c] =
                               [AfterData(@, k[c], physmem) EXCEPT
                                  !.src1 = 0,
                                  !.partial = IF freemem[c].some # physmem.some
                                              THEN @ \cup {k[c].ksp} ELSE @]]
                 /\ pc' = [pc EXCEPT ![c] = "step"]
                 /\ UNCHANGED result
    /\ freemem' = [freemem EXCEPT ![c] = None]
    /\ UNCHANGED <<chain, kfail, live, acc, k>>

\* drop gone wrong: the wrapper is forgotten, kstat_close never runs
AccDropLeak(c) ==
    /\ pc[c] = "drop"
    /\ pc' = [pc EXCEPT ![c] = "done"]
    /\ UNCHANGED <<chain, kfail, live, acc, k, freemem, result, hist, fault>>

\* impl Drop for KstatWrapper: k goes out of scope when the accessor returns
AccDrop(c) ==
    /\ pc[c] = "drop"
    /\ live' = live \ {k[c].kc}
    /\ fault' = (fault \/ Stale(k[c]))
    /\ hist' = [hist EXCEPT ![c].closes = @ + 1]
    /\ k' = [k EXCEPT ![c] = open(0)]    \* the wrapper is gone
    /\ pc' = [pc EXCEPT ![c] = "done"]
    /\ UNCHANGED <<chain, kfail, acc, freemem, result>>

cpu_mhz(c) ==
    /\ acc[c] = "cpu_mhz"
    /\ \/ AccOpen(c)
       \/ AccLookup(c, SomeStr(MODULE_CPU_INFO), NoStr)
       \/ AccStep(c, ERR_CPU_MHZ)
       \/ AccFilter(c, MODULE_CPU_INFO, NoStr)
       \/ LET mhz == data_long(k[c], STAT_CLOCK_MHZ)
          IN AccData(c, mhz, i64_as_u64(mhz.val))
       \/ AccDrop(c)

boot_time(c) ==
    /\ acc[c] = "boot_time"
    /\ \/ AccOpen(c)
       \/ AccLookup(c, SomeStr(MODULE_UNIX), SomeStr(NAME_SYSTEM_MISC))
       \/ AccStep(c, ERR_BOOT_TIME)
       \/ AccFilter(c, MODULE_UNIX, SomeStr(NAME_SYSTEM_MISC))
       \/ LET bt == data_u32(k[c], STAT_BOOT_TIME)
          IN AccData(c, bt, u32_as_u64(bt.val))
       \/ AccDrop(c)

nproc(c) ==
    /\ acc[c] = "nproc"
    /\ \/ AccOpen(c)
       \/ AccLookup(c, SomeStr(MODULE_UNIX), SomeStr(NAME_SYSTEM_MISC))
       \/ AccStep(c, ERR_NPROC)
       \/ AccFilter(c, MODULE_UNIX, SomeStr(NAME_SYSTEM_MISC))
       \/ LET np == data_u32(k[c], STAT_NPROC)
          IN AccData(c, np, u32_as_u64(np.val))
       \/ AccDrop(c)

pages(c) ==
    /\ acc[c] = "pages"
    /\ \/ AccOpen(c)
       \/ AccLookup(c, SomeStr(MODULE_UNIX), SomeStr(NAME_SYSTEM_PAGES))
       \/ AccStep(c, ERR_PAGES)
       \/ AccFilter(c, MODULE_UNIX, SomeStr(NAME_SYSTEM_PAGES))
       \/ PagesFreemem(c)
       \/ PagesPhysmem(c)
       \/ AccDrop(c)

\* one step of call c
Run(c) == cpu_mhz(c) \/ boot_time(c) \/ nproc(c) \/ pages(c)

\* the kernel starts or stops refusing kstat_read
KernelChange ==
    /\ kfail' = ~kfail
    /\ UNCHANGED <<chain, live, acc, pc, k, freemem, result, hist, fault>>

-----------------------------------------------------------------------------
(* One accessor call on any host, the kernel changing under it *)

Init ==
    /\ chain \in Chains
    /\ kfail \in BOOLEAN
    /\ live = {}
    /\ acc \in {a \in [Calls -> Accessors \cup {"none"}] :
                  a[1] # "none" /\ \A c \in Calls \ {1} : a[c] = "none"}
    /\ pc = [c \in Calls |-> IF c = 1 THEN "open" ELSE "idle"]
    /\ k = [c \in Calls |-> open(0)]
    /\ freemem = [c \in Calls |-> None]
    /\ result = [c \in Calls |-> NoResult]
    /\ hist = [c \in Calls |-> NoHist]
    /\ fault = FALSE

Next == KernelChange \/ Run(1)

Spec == Init /\ [][Next]_vars

\* a call that has started keeps running: nothing in an accessor blocks
FairSpec == Spec /\ WF_vars(Run(1))

\* one accessor call on a host whose kernel does not change during the call
QuietNext == Run(1)

QuietSpec == Init /\ [][QuietNext]_vars

-----------------------------------------------------------------------------
(* Accessor calls running together on one unchanging host *)

\* a host where cpu_mhz(), boot_time() and pages() find their group and
\* nproc() meets a matching group without the field, then another name
BusyHost == <<CpuInfo0, SystemMiscBare, SystemPages>>

ConcChains == {<<>>, BusyHost}

ConcInit ==
    /\ chain \in ConcChains
    /\ kfail \in BOOLEAN
    /\ live = {}
    /\ acc \in [Calls -> Accessors]
    /\ pc = [c \in Calls |-> "open"]
    /\ k = [c \in Calls |-> open(0)]
    /\ freemem = [c \in Calls |-> None]
    /\ result = [c \in Calls |-> NoResult]
    /\ hist = [c \in Calls |-> NoHist]
    /\ fault = FALSE

ConcNext == \E c \in Calls : Run(c)

ConcSpec == ConcInit /\ [][ConcNext]_vars

-----------------------------------------------------------------------------
(* Any sequence of wrapper methods on one KstatWrapper (call 1) *)

ModuleArgs == {NoStr, SomeStr(MODULE_CPU_INFO), SomeStr(MODULE_UNIX)}
NameArgs == {NoStr, SomeStr(NAME_SYSTEM_MISC), SomeStr(NAME_SYSTEM_PAGES)}

WOpen ==
    /\ pc[1] = "new"
    /\ \E h \in (Handles \ live) \cup {0} :
         IF h = 0
         THEN /\ pc' = [pc EXCEPT ![1] = "failed"]
              /\ UNCHANGED <<k, live, hist>>
         ELSE /\ k' = [k EXCEPT ![1] = open(h)]
              /\ live' = live \cup {h}
              /\ hist' = [hist EXCEPT ![1].opened = TRUE,
                                      ![1].last = Called("open", TRUE)]
              /\ pc' = [pc EXCEPT ![1] = "ready"]
    /\ UNCHANGED <<chain, kfail, acc, freemem, result, fault>>

WLookup ==
    /\ pc[1] = "ready"
    /\ \E mod \in ModuleArgs, nam \in NameArgs :
         /\ k' = [k EXCEPT ![1] = lookup(k[1], mod, nam)]
         /\ hist' = [hist EXCEPT ![1].lookups = 1, ![1].pos = k'[1].ksp,
                                 ![1].steps = 0, ![1].trues = 0,
                                 ![1].sawFalse = FALSE, ![1].visited = <<>>,
                                 ![1].args = <<mod, nam>>,
                                 ![1].reused = @ \/ hist[1].sawFalse,
                                 ![1].last = Called("lookup", k'[1].ksp # 0)]
    /\ fault' = (fault \/ Stale(k[1]))
    /\ UNCHANGED <<chain, kfail, live, acc, pc, freemem, result>>

WStep ==
    /\ pc[1] = "ready"
    /\ hist[1].steps < MaxSteps
    /\ \E o \in step(k[1]) :
         /\ k' = [k EXCEPT ![1] = o.w]
         /\ hist' = [hist EXCEPT ![1].steps = @ + 1,
                                 ![1].trues = IF o.ret THEN @ + 1 ELSE @,
                                 ![1].sawFalse = @ \/ ~o.ret,
                                 ![1].visited = IF o.ret THEN Append(@, o.w.ksp) ELSE @,
                                 ![1].last = Called("step", o.ret)]
         /\ fault' = (fault \/ o.fault)
    /\ UNCHANGED <<chain, kfail, live, acc, pc, freemem, result>>

WDrop ==
    /\ pc[1] = "ready"
    /\ live' = live \ {k[1].kc}
    /\ fault' = (fault \/ Stale(k[1]))
    /\ hist' = [hist EXCEPT ![1].closes = @ + 1]
    /\ k' = [k EXCEPT ![1] = open(0)]    \* the wrapper is gone
    /\ pc' = [pc EXCEPT ![1] = "dropped"]
    /\ UNCHANGED <<chain, kfail, acc, freemem, result>>

WrapperInit ==
    /\ chain \in Chains
    /\ kfail = FALSE
    /\ live = {}
    /\ acc = [c \in Calls |-> "none"]
    /\ pc = [c \in Calls |-> IF c = 1 THEN "new" ELSE "idle"]
    /\ k = [c \in Calls |-> open(0)]
    /\ freemem = [c \in Calls |-> None]
    /\ result = [c \in Calls |-> NoResult]
    /\ hist = [c \in Calls |-> NoHist]
    /\ fault = FALSE

WrapperNext == WOpen \/ WLookup \/ WStep \/ WDrop

WrapperSpec == WrapperInit /\ [][WrapperNext]_vars

-----------------------------------------------------------------------------
(* Any sequence of wrapper methods, the readers included, on one           *)
(* KstatWrapper, on hosts built from three kinds of group; the kernel      *)
(* either serves kstat_read or refuses it                                  *)

UseKstat == {CpuInfo0, SystemMiscBare, SystemPages}
UseChains == SeqsUpTo(UseKstat, MaxChain)

\* the typed readers and the statistics the accessors read with them
DataCalls == {<<"data_long", STAT_CLOCK_MHZ>>, <<"data_u32", STAT_BOOT_TIME>>,
              <<"data_u32", STAT_NPROC>>, <<"data_ulong", STAT_FREEMEM>>,
              <<"data_ulong", STAT_PHYSMEM>>}

WModule ==
    /\ pc[1] = "ready"
    /\ LET m == module(k[1])
       IN hist' = [hist EXCEPT ![1].last =
                     [NoCall EXCEPT !.op = "module", !.ret = m.some, !.str = m.str]]
    /\ UNCHANGED <<chain, kfail, live, acc, pc, k, freemem, result, fault>>

WName ==
    /\ pc[1] = "ready"
    /\ LET m == name(k[1])
       IN hist' = [hist EXCEPT ![1].last =
                     [NoCall EXCEPT !.op = "name", !.ret = m.some, !.str = m.str]]
    /\ UNCHANGED <<chain, kfail, live, acc, pc, k, freemem, result, fault>>

WData ==
    /\ pc[1] = "ready"
    /\ \E call \in DataCalls :
         LET d == CASE call[1] = "data_long" -> data_long(k[1], call[2])
                    [] call[1] = "data_ulong" -> data_ulong(k[1], call[2])
                    [] OTHER -> data_u32(k[1], call[2])
         IN /\ hist' = [hist EXCEPT ![1].last =
                          [op |-> call[1], ret |-> d.some, str |-> call[2],
                           val |-> d.val, read |-> d.read, looked |-> d.looked]]
            /\ fault' = (fault \/ (d.read /\ Stale(k[1])))
    /\ UNCHANGED <<chain, kfail, live, acc, pc, k, freemem, result>>

UseInit ==
    /\ chain \in UseChains
    /\ kfail \in BOOLEAN
    /\ live = {}
    /\ acc = [c \in Calls |-> "none"]
    /\ pc = [c \in Calls |-> IF c = 1 THEN "new" ELSE "idle"]
    /\ k = [c \in Calls |-> open(0)]
    /\ freemem = [c \in Calls |-> None]
    /\ result = [c \in Calls |-> NoResult]
    /\ hist = [c \in Calls |-> NoHist]
    /\ fault = FALSE

UseNext == WOpen \/ WLookup \/ WStep \/ WModule \/ WName \/ WData \/ WDrop

UseSpec == UseInit /\ [][UseNext]_vars

-----------------------------------------------------------------------------
(* One accessor call on a host with a single group whose fields hold any   *)
(* word: a clock_MHz of any signed value, counters with any upper bits     *)

\* the values of a c_long, and the bit patterns of a word
SignedWords == (0 - 2 ^ (LongBits - 1)) .. (2 ^ (LongBits - 1) - 1)
Words == 0 .. (2 ^ LongBits - 1)

\* the bits of a c_long holding v
bits_of(v) == IF v < 0 THEN v + 2 ^ LongBits ELSE v

CpuInfoWith(v) ==
    [module |-> "cpu_info", name |-> "cpu_info0", data |-> (STAT_CLOCK_MHZ :> bits_of(v))]
SystemMiscWith(r) ==
    [module |-> "unix", name |-> "system_misc",
     data |-> (STAT_BOOT_TIME :> r) @@ (STAT_NPROC :> (2 ^ LongBits - 1 - r))]
SystemPagesWith(r) ==
    [module |-> "unix", name |-> "system_pages",
     data |-> (STAT_FREEMEM :> r) @@ (STAT_PHYSMEM :> (2 ^ LongBits - 1 - r))]

ConvChains ==
    {<<CpuInfoWith(v)>> : v \in SignedWords}
      \cup {<<SystemMiscWith(r)>> : r \in Words}
      \cup {<<SystemPagesWith(r)>> : r \in Words}

ConvInit ==
    /\ chain \in ConvChains
    /\ kfail = FALSE
    /\ live = {}
    /\ acc \in {a \in [Calls -> Accessors \cup {"none"}] :
                  a[1] # "none" /\ \A c \in Calls \ {1} : a[c] = "none"}
    /\ pc = [c \in Calls |-> IF c = 1 THEN "open" ELSE "idle"]
    /\ k = [c \in Calls |-> open(0)]
    /\ freemem = [c \in Calls |-> None]
    /\ result = [c \in Calls |-> NoResult]
    /\ hist = [c \in Calls |-> NoHist]
    /\ fault = FALSE

ConvNext == Run(1)

ConvSpec == ConvInit /\ [][ConvNext]_vars

-----------------------------------------------------------------------------
(* What each accessor looks for, read off its constants *)

ExpModule(a) == IF a = "cpu_mhz" THEN MODULE_CPU_INFO ELSE MODULE_UNIX

ExpName(a) ==
    CASE a = "cpu_mhz" -> NoStr
      [] a = "pages" -> SomeStr(NAME_SYSTEM_PAGES)
      [] OTHER -> SomeStr(NAME_SYSTEM_MISC)

ExpStats(a) ==
    CASE a = "cpu_mhz" -> {STAT_CLOCK_MHZ}
      [] a = "boot_time" -> {STAT_BOOT_TIME}
      [] a = "nproc" -> {STAT_NPROC}
      [] OTHER -> {STAT_FREEMEM, STAT_PHYSMEM}

\* group g has exactly the module (and name) accessor a expects
Matches(a, g) ==
    /\ g.module = ExpModule(a)
    /\ ExpName(a).some => g.name = ExpName(a).str

Done(c) == pc[c] = "done"
InFlight(c) == pc[c] \in {"lookup", "step", "filter", "data", "data2", "drop"}
Min(S) == CHOOSE x \in S : \A y \in S : x <= y

-----------------------------------------------------------------------------
(* C1: a call whose kstat_open succeeded has called kstat_close exactly    *)
(* once on its handle when it returns, on every exit path; a call whose    *)
(* kstat_open failed never calls it; no handle is closed twice (a close of *)
(* a handle that is not open is a fault) and none is left open.            *)
C1_ClosedExactlyOnce ==
    /\ \A c \in Calls :
         /\ hist[c].closes <= 1
         /\ Done(c) => hist[c].closes = (IF hist[c].opened THEN 1 ELSE 0)
         /\ InFlight(c) /\ hist[c].closes = 0 => k[c].kc \in live
    /\ (\A c \in Calls : pc[c] \in {"done", "idle"}) => live = {}
    /\ ~fault

\* a call that walked a chain, found nothing and returned the error has closed
C1_Witness ==
    /\ Done(1) /\ hist[1].opened /\ hist[1].closes = 1
    /\ result[1].tag = "err" /\ hist[1].trues > 0

(* C2: pages() returns Ok only with both fields obtained from one matching *)
(* system_pages group; a group that gave exactly one of them is skipped    *)
(* and never is the group of the result.                                   *)
C2_PagesBothOrNeither ==
    \A c \in Calls :
      acc[c] = "pages" /\ result[c].tag = "ok" =>
        LET g == hist[c].grp IN
          /\ g \in 1..Len(chain)
          /\ chain[g].module = MODULE_UNIX /\ chain[g].name = NAME_SYSTEM_PAGES
          /\ {STAT_FREEMEM, STAT_PHYSMEM} \subseteq DOMAIN chain[g].data
          /\ hist[c].src1 > 0 /\ hist[c].src2 > 0
          /\ result[c].val = chain[g].data[STAT_FREEMEM]
          /\ result[c].val2 = chain[g].data[STAT_PHYSMEM]
          /\ g \notin hist[c].partial

\* a group gave one field only and was skipped; a later group gave both
C2_Witness ==
    /\ Done(1) /\ acc[1] = "pages" /\ result[1].tag = "ok"
    /\ hist[1].partial # {}

(* C4: a group whose module (and name) is not exactly the expected one is  *)
(* skipped: kstat_read and kstat_data_lookup are never called on it and    *)
(* the result never comes from it.                                         *)
C4_ExactFilter ==
    \A c \in Calls :
      acc[c] \in Accessors =>
        \A i \in (hist[c].refreshed \cup hist[c].looked \cup {hist[c].grp}) \ {0} :
          Matches(acc[c], chain[i])

\* a skipped group differed from the expected strings and had the fields
C4_Witness ==
    /\ Done(1)
    /\ \E i \in hist[1].checked :
         /\ ~Matches(acc[1], chain[i])
         /\ ExpStats(acc[1]) \subseteq DOMAIN chain[i].data
         /\ i \notin hist[1].refreshed

(* C5: a failed refresh or an absent field on a matching group is no       *)
(* error: the walk goes on to the next group, and the accessor's own       *)
(* "not found" error is returned only once step() has returned false.      *)
C5_NotFoundOnlyAfterExhaustion ==
    \A c \in Calls :
      /\ result[c].tag # "panic"
      /\ result[c].tag = "err" /\ hist[c].opened =>
           /\ hist[c].sawFalse /\ k[c].ksp = 0
           /\ result[c].err = NotFoundOf(acc[c])
      /\ Done(c) =>
           \A i \in hist[c].refreshed \ {hist[c].grp} :
             i = Len(chain) \/ hist[c].visited[Len(hist[c].visited)] > i

\* nproc() on a host whose only system_misc group lacks "nproc"
C5_Witness ==
    /\ Done(1) /\ acc[1] = "nproc"
    /\ result[1] = Err(ERR_NPROC)
    /\ hist[1].looked # {}
    /\ \A i \in hist[1].looked : chain[i] = SystemMiscBare

(* C6: when kstat_open returns null the accessor returns the "open failed" *)
(* error at once: no lookup, step, refresh, field lookup or close happens, *)
(* and that error is returned in no other case.                            *)
C6_OpenFailureIsImmediate ==
    \A c \in Calls :
      /\ Done(c) /\ ~hist[c].opened =>
           /\ result[c] = Err(ERR_OPEN)
           /\ hist[c].lookups = 0 /\ hist[c].steps = 0 /\ hist[c].reads = 0
           /\ hist[c].looked = {} /\ hist[c].checked = {} /\ hist[c].closes = 0
      /\ result[c].err = ERR_OPEN => ~hist[c].opened
      /\ hist[c].lookups > 0 => hist[c].opened

C6_Witness == Done(1) /\ ~hist[1].opened /\ result[1] = Err(ERR_OPEN)

\* what accessor a returns from group g once g yields its fields
OkOf(a, g) ==
    IF a = "pages"
    THEN OkPages(g.data[STAT_FREEMEM], g.data[STAT_PHYSMEM])
    ELSE Ok(g.data[CHOOSE s \in ExpStats(a) : TRUE])

\* the matching groups from position p on that yield every field a needs
\* while the kernel is in its present state
Yielding(a, p) ==
    {i \in 1..Len(chain) :
       /\ p > 0 /\ i >= p
       /\ Matches(a, chain[i])
       /\ ~kfail /\ ExpStats(a) \subseteq DOMAIN chain[i].data}

(* C3: on an unchanging host an accessor returns the fields of the first   *)
(* group, in chain order from the position kstat_lookup returned, that     *)
(* matches and yields all the fields; it returns as soon as it reaches     *)
(* that group and neither refreshes nor examines a later one.  If there is *)
(* no such group it returns its "not found" error.                         *)
C3_FirstYieldingGroup ==
    \A c \in Calls :
      Done(c) /\ hist[c].opened =>
        LET S == Yielding(acc[c], hist[c].pos) IN
          IF S = {}
          THEN result[c] = Err(NotFoundOf(acc[c]))
          ELSE /\ result[c] = OkOf(acc[c], chain[Min(S)])
               /\ hist[c].grp = Min(S)
               /\ hist[c].visited[Len(hist[c].visited)] = Min(S)
               /\ \A i \in hist[c].refreshed \cup hist[c].checked : i <= Min(S)

\* cpu_mhz() on a host with two cpu_info instances that both have clock_MHz
C3_Witness ==
    /\ Done(1) /\ acc[1] = "cpu_mhz" /\ ~kfail
    /\ Len(chain) >= 2 /\ chain[1] = CpuInfo0 /\ chain[2] = CpuInfo0
    /\ result[1] = Ok(24)
    /\ hist[1].refreshed = {1} /\ hist[1].checked = {1}

C8_StepBounded ==
    LET h == hist[1]
        n == Len(chain)
    IN /\ h.steps >= n + 1 => h.sawFalse
       /\ h.trues <= (IF h.pos = 0 THEN 0 ELSE n - h.pos + 1)

\* a lookup that matched the first group, then n + 1 steps over n groups
C8_Witness ==
    /\ hist[1].lookups = 1 /\ hist[1].pos = 1 /\ Len(chain) >= 2
    /\ hist[1].steps = Len(chain) + 1 /\ hist[1].trues = Len(chain)
    /\ hist[1].sawFalse

\* what accessor a returns when it runs alone on the host as it is
AloneResult(a) ==
    LET S == Yielding(a, 1)
    IN IF S = {} THEN Err(NotFoundOf(a)) ELSE OkOf(a, chain[Min(S)])

(* C9: accessor calls running together, under every interleaving of their  *)
(* steps: calls in flight hold distinct handles, the open handles are      *)
(* exactly those of the calls in flight, each call closes its own handle   *)
(* once, no call uses a handle that is not open, and each call returns     *)
(* what it would return alone on the same unchanging host.                 *)
C9_CallsAreIndependent ==
    /\ \A c \in Calls :
         Done(c) =>
           IF hist[c].opened
           THEN result[c] = AloneResult(acc[c]) /\ hist[c].closes = 1
           ELSE result[c] = Err(ERR_OPEN) /\ hist[c].closes = 0
    /\ \A c, d \in Calls : c # d /\ InFlight(c) /\ InFlight(d) => k[c].kc # k[d].kc
    /\ live = {k[c].kc : c \in {d \in Calls : InFlight(d)}}
    /\ ~fault

\* one call has returned a value while another is in the middle of nproc()
C9_Witness ==
    /\ Done(1) /\ result[1].tag = "ok" /\ result[1] = AloneResult(acc[1])
    /\ acc[2] = "nproc" /\ pc[2] = "filter" /\ hist[2].trues >= 2
    /\ live = {k[2].kc}

(* C10: the freemem and physmem values pages() returns are taken from the  *)
(* same refresh (kstat_read) of the system_pages group.                    *)
C10_PagesOneRefresh ==
    \A c \in Calls :
      acc[c] = "pages" /\ result[c].tag = "ok" => hist[c].src1 = hist[c].src2

\* a wrapper after j step() calls, and the groups the calls positioned
RECURSIVE Walk(_, _)
Walk(w, j) ==
    IF j = 0 THEN [w |-> w, visited |-> <<>>]
    ELSE LET before == Walk(w, j - 1)
             o == CHOOSE x \in step(before.w) : TRUE
         IN [w |-> o.w,
             visited |-> IF o.ret THEN Append(before.visited, o.w.ksp)
                         ELSE before.visited]

\* a fresh connection (open, then the lookup) stepped j times
Fresh(kc, args, j) == Walk(lookup(open(kc), args[1], args[2]), j)

(* C11: right after open and after every lookup stepping is false; when    *)
(* step() has returned false the cursor is null and stepping is false; and *)
(* a wrapper that was used before (walked to exhaustion or left midway)    *)
(* visits, after a lookup, the groups a fresh connection visits after the  *)
(* same lookup and is left in the same state.                              *)
C11_CursorReusable ==
    LET h == hist[1]
        w == k[1]
    IN pc[1] = "ready" =>
         /\ h.last.op \in {"open", "lookup"} => ~w.stepping
         /\ h.last.op = "step" /\ ~h.last.ret => w.ksp = 0 /\ ~w.stepping
         /\ h.lookups >= 1 =>
              LET f == Fresh(w.kc, h.args, h.steps)
              IN f.w = w /\ f.visited = h.visited

\* a wrapper walked to exhaustion, looked up again and walked two groups
C11_Witness ==
    /\ pc[1] = "ready" /\ hist[1].reused
    /\ hist[1].visited = <<1, 2>> /\ hist[1].last = Called("step", FALSE)

(* C12: with the lookup positioned at group i of n (0 for no match), the   *)
(* first step() leaves the cursor at i and the j-th step() puts it at      *)
(* group i + j - 1, returning true iff that group exists; the groups       *)
(* visited are i, i + 1, ... in chain order, each once; without a match,   *)
(* or without any lookup, step() returns false.                            *)
C12_StepPositions ==
    LET h == hist[1]
        w == k[1]
        n == Len(chain)
        i == h.pos
        j == h.steps
        target == i + j - 1
    IN pc[1] = "ready" =>
         /\ h.lookups >= 1 /\ j = 0 => w.ksp = i
         /\ j >= 1 =>
              /\ h.last.op = "step"
              /\ IF i # 0 /\ target <= n
                 THEN w.ksp = target /\ h.last.ret
                 ELSE w.ksp = 0 /\ ~h.last.ret
         /\ h.trues = (IF i = 0 THEN 0 ELSE IF j <= n - i + 1 THEN j ELSE n - i + 1)
         /\ h.visited = [x \in 1..h.trues |-> i + x - 1]

\* the second step() after a lookup that matched the first group of a chain
C12_Witness ==
    /\ pc[1] = "ready" /\ hist[1].pos = 1 /\ hist[1].steps = 2
    /\ k[1].ksp = 2 /\ hist[1].last = Called("step", TRUE)

\* the group positioned after the walk recorded in h, 0 for none
Positioned(h) ==
    IF h.lookups = 0 \/ h.pos = 0 \/ h.sawFalse THEN 0
    ELSE IF h.steps = 0 THEN h.pos ELSE h.pos + h.steps - 1

(* C13 as claimed: module() and name() return nothing before the first     *)
(* step() call and after step() has returned false, and otherwise the      *)
(* strings of the positioned group.                                        *)
C13_NoneBeforeFirstStep ==
    LET h == hist[1]
    IN pc[1] = "ready" /\ h.last.op \in {"module", "name"} =>
         IF h.steps = 0 \/ h.sawFalse
         THEN ~h.last.ret
         ELSE /\ h.last.ret
              /\ h.last.str = IF h.last.op = "module"
                              THEN chain[Positioned(h)].module
                              ELSE chain[Positioned(h)].name

(* C13 amended: module() and name() return nothing exactly when the cursor *)
(* is null: after open before any lookup, after a lookup that matched      *)
(* nothing, and after step() has returned false; whenever a group is       *)
(* positioned, which includes right after a lookup that matched and before *)
(* the first step(), they return that group's module and name.             *)
C13_NoneIffNoGroup ==
    LET h == hist[1]
        g == Positioned(h)
    IN pc[1] = "ready" /\ h.last.op \in {"module", "name"} =>
         IF g = 0
         THEN h.last = [NoCall EXCEPT !.op = h.last.op]
         ELSE /\ h.last.ret
              /\ h.last.str = IF h.last.op = "module"
                              THEN chain[g].module ELSE chain[g].name

\* module() called right after a lookup that matched, before any step()
C13_Witness ==
    /\ pc[1] = "ready" /\ hist[1].lookups = 1 /\ hist[1].steps = 0
    /\ hist[1].pos = 2
    /\ hist[1].last = [NoCall EXCEPT !.op = "module", !.ret = TRUE,
                                     !.str = chain[2].module]

(* C14: a typed reader called with no group positioned returns nothing     *)
(* and does not call kstat_read; when kstat_read fails it returns nothing  *)
(* and does not call kstat_data_lookup; it returns a value exactly when a  *)
(* group is positioned, the refresh succeeded and the group has the named  *)
(* field, which is exactly when data_value returns a reference, and the    *)
(* value is that field's, read at the reader's type.                       *)
C14_ReadField ==
    LET h == hist[1]
        g == Positioned(h)
        call == h.last
    IN pc[1] = "ready" /\ <<call.op, call.str>> \in DataCalls =>
         /\ call.read = (g # 0)
         /\ call.looked = (g # 0 /\ ~kfail)
         /\ call.ret = (g # 0 /\ ~kfail /\ call.str \in DOMAIN chain[g].data)
         /\ call.ret = data_value(k[1], call.str).some
         /\ call.val = IF ~call.ret THEN 0
                       ELSE IF call.op = "data_u32"
                            THEN chain[g].data[call.str] % (2 ^ U32Bits)
                            ELSE chain[g].data[call.str]

\* a reader called on a positioned group while the kernel refuses the read
C14_Witness ==
    /\ pc[1] = "ready" /\ kfail /\ k[1].ksp = 2 /\ hist[1].trues = 2
    /\ hist[1].last = [NoCall EXCEPT !.op = "data_ulong", !.str = STAT_FREEMEM,
                                     !.read = TRUE]
    /\ STAT_FREEMEM \in DOMAIN chain[2].data

(* C15: whatever methods were called on a wrapper, in whatever order,      *)
(* stepping = true implies a non-null cursor, so step() never reads        *)
(* ks_next through a null pointer, also when it is called again after it   *)
(* returned false or without a lookup before it.                           *)
C15_SteppingImpliesCursor ==
    /\ \A c \in Calls : k[c].stepping => k[c].ksp # 0
    /\ ~fault

\* step() called twice more after it returned false at the end of a chain,
\* on a wrapper that had been walked to exhaustion once before
C15_Witness ==
    /\ pc[1] = "ready" /\ hist[1].trues = 2 /\ hist[1].steps = 4
    /\ hist[1].last.op = "step" /\ hist[1].reused

(* C16: once a call has closed its handle it does nothing more with the    *)
(* facility: no lookup, no read of a group's strings or link, no refresh,  *)
(* no field lookup and no second close follow, the value it returns was    *)
(* read before the close, and no call ever goes through a closed handle.   *)
C16_CloseIsLast ==
    [][/\ \A c \in Calls :
            hist[c].closes >= 1 =>
              /\ hist'[c] = hist[c]
              /\ result'[c] = result[c]
              /\ k'[c] = k[c]
       /\ ~fault']_vars

\* pages() has read both fields, returned them and then closed its handle
C16_Witness ==
    /\ Done(1) /\ acc[1] = "pages" /\ result[1].tag = "ok"
    /\ hist[1].closes = 1 /\ hist[1].reads >= 2 /\ hist[1].looked # {}
    /\ live = {}

(* C17: cpu_mhz() returns a clock_MHz of v >= 0 as v and of v < 0 as       *)
(* v + 2^w (w the width of the word), never an error; boot_time() and      *)
(* nproc() return the low 32 bits of their field, so a value below 2^32.   *)
C17_Conversions ==
    Done(1) /\ hist[1].opened =>
      /\ acc[1] = "cpu_mhz" =>
           \A v \in SignedWords :
             chain = <<CpuInfoWith(v)>> =>
               result[1] = Ok(IF v >= 0 THEN v ELSE v + 2 ^ LongBits)
      /\ acc[1] \in {"boot_time", "nproc"} /\ result[1].tag = "ok" =>
           /\ result[1].val < 2 ^ U32Bits
           /\ LET stat == IF acc[1] = "boot_time" THEN STAT_BOOT_TIME ELSE STAT_NPROC
              IN result[1].val = chain[1].data[stat] % (2 ^ U32Bits)
           /\ result[1].val2 = 0

\* cpu_mhz() on a host whose clock_MHz is -3
C17_Witness ==
    /\ Done(1) /\ acc[1] = "cpu_mhz" /\ chain = <<CpuInfoWith(0 - 3)>>
    /\ result[1] = Ok(2 ^ LongBits - 3)

====
